---------------------------- MODULE Spec2Model ----------------------------
(* bog: the concurrent document-build pipeline.                            *)
(*                                                                         *)
(*   multierr.MultiErr   the task group / error aggregator                 *)
(*   main                load phase (one worker per document, collector    *)
(*                       goroutine), then generate phase (index, pages,    *)
(*                       extras)                                           *)
(*   LoadPage, render    body pass and template pass, in memory            *)
(*                                                                         *)
(* Spec      is the program main() of cmd/bog.                             *)
(* SpecME    is the package multierr driven through its exported           *)
(*           operations (WithContext, Go, Wait) by a sequential caller.    *)
(* SpecStale is the decision whether a page is written, for every source   *)
(*           modification time and state of the destination.               *)
(* SpecMeta  is getMeta, called on every small parsed document.            *)
(* SpecFill  is the default back-fill of LoadPage, for every short file    *)
(*           name and every metadata a source may carry.                   *)
(* SpecWriter is markdown.Render with its errWriter over a writer that     *)
(*           may fail at any write.                                        *)
(* SpecRound is the template pass and the page template, for every short   *)
(*           body and choice of delimiters.                                *)
(* SpecLookup is PageInfo.getMeta, for every small nested mapping and      *)
(*           key sequence.                                                 *)
(* SpecPool  is the package bufpool, used by concurrent workers.           *)
(* SpecFair  is the load phase of main under fair scheduling.              *)
(* SpecSort  is the collector's insertion, for every arrival order of      *)
(*           modification times.                                           *)
EXTENDS Integers, Sequences, FiniteSets, Bags, TLC

\* ------------------------------------------------------------------ bounds
\* Number of .md files in the source directory.
NDocs == 2
\* SpecME: number of units the caller starts with Go.
MaxUnits == 3
\* SpecME: number of times the caller calls Wait.
MaxWaits == 2
\* SpecStale: modification times are 1 .. MaxTime.
MaxTime == 5
\* SpecMeta: number of block nodes of a parsed document.
MaxBlocks == 2
\* SpecFill: length of a file name.
MaxName == 4
\* SpecWriter: number of nodes of the tree rendered.
MaxNodes == 2
\* SpecRound: number of tokens of a body.
MaxBody == 3
\* SpecLookup: number of keys of a lookup.
MaxKeys == 3
\* SpecSort: number of pages the collector receives.
MaxPages == 3

Docs == 1 .. NDocs
\* flags.Extras: the run is given one template:output pair.
Extras == {1}

\* ------------------------------------------------------------------- units
\* A unit is one func() error handed to MultiErr.Go.
LoadUnits == {<<"load", d>> : d \in Docs}
PageUnits == {<<"page", d>> : d \in Docs}
IndexUnit == <<"index", 0>>
ExtraUnits == {<<"extra", e>> : e \in Extras}
ApiUnits == {<<"unit", i>> : i \in 1 .. MaxUnits}
GenUnits == {IndexUnit} \cup PageUnits \cup ExtraUnits
Units == LoadUnits \cup GenUnits \cup ApiUnits

\* The two MultiErr values main creates: 1 for the load phase, 2 for the
\* generate phase.  SpecME uses value 1 only.
Groups == {1, 2}

\* The MultiErr a unit was started on (the receiver of its Go call).
GroupOf(u) == IF u \in GenUnits THEN 2 ELSE 1

VARIABLES
    pc,          \* [Units -> position of the unit's goroutine]
    ret,         \* [Units -> what f() returned: "none", "nil" or an error]
    wg,          \* [Groups -> me.wg, the outstanding-worker counter]
    errs,        \* [Groups -> me.errs: the <<unit, error>> entries of the
                 \*  slice as a bag (the order of the slice is the order
                 \*  in which the mutex was taken; nothing reads it)]
    merr,        \* [Groups -> holder of me.merr: a unit, or <<"free", 0>>]
    cancelled,   \* [Groups -> me.cancel has been called]
    interrupted, \* the os.Interrupt signal context is done
    eg,          \* main's variable eg: 0 before WithContext, then a group
    mainPc,      \* position of the main goroutine (of the caller in SpecME)
    snap,        \* Wait's named result errs, between snapshot and return
    waited,      \* the lists (bags) returned by the Wait calls so far
    startedAt,   \* for each of them, how many units Go had started by then
    pages,       \* main's variable pages, owned by the collector goroutine
    colPc,       \* position of the collector goroutine
    colPage,     \* the collector's loop variable page
    pagecClosed, \* close(pagec) has happened
    loaded,      \* [Docs -> the *PageInfo LoadPage returned, or NoPage]
    files,       \* [Paths -> what this run has done to the file]
    outDir,      \* os.MkdirAll(flags.Output) has succeeded
    exitCode,    \* -1 while running, else the process exit code
    dstStat,     \* [Docs -> what os.Stat reported for the page's destination
                 \*  when its worker looked: "none" before that]
    call         \* the call of a function taken on its own: its
                 \* arguments, its local variables, its results

vars == <<pc, ret, wg, errs, merr, cancelled, interrupted, eg, mainPc, snap,
          waited, startedAt, pages, colPc, colPage, pagecClosed, loaded,
          files, outDir, exitCode, dstStat, call>>

meVars == <<pc, ret, wg, errs, merr, cancelled>>
\* Everything but call.
progVars == <<pc, ret, wg, errs, merr, cancelled, interrupted, eg, mainPc,
              snap, waited, startedAt, pages, colPc, colPage, pagecClosed,
              loaded, files, outDir, exitCode, dstStat>>
pipeVars == <<startedAt, pages, colPc, colPage, pagecClosed, loaded, files,
              outDir, exitCode>>

\* ------------------------------------------------------------ contexts
\* ctx.Done() of the context returned by WithContext for group g.  The
\* context of group 1 is a child of the signal context; main derives the
\* context of group 2 from the variable ctx, which then holds the context
\* of group 1.  A child context is done as soon as its parent is.
RECURSIVE CtxDone(_)
CtxDone(g) ==
    IF g = 0 THEN interrupted
    ELSE cancelled[g] \/ CtxDone(g - 1)

\* ------------------------------------------------------------ MultiErr
\* me.errs = append(me.errs, err)
AppendErrDropFirst(list, e) == SetToBag({e})
AppendErrLost(list, e) == list
AppendErr(list, e) == list (+) SetToBag({e})

\* me.cancel(): the context's cancel function; calling it again is a no-op.
CancelSkipped(c) == c
Cancel(c) == TRUE

\* me.wg.Wait() returns when the counter is zero.
WgZeroIgnored(g) == TRUE
WgZero(g) == wg[g] = 0

\* me.errs = nil
ClearedKept(list) == list
Cleared(list) == EmptyBag

\* Go: me.wg.Add(1); go func() { ... }()
MEGoUnlessCancelled(g, u) ==
    /\ pc[u] = "idle"
    /\ IF CtxDone(g)
       THEN /\ pc' = [pc EXCEPT ![u] = "done"]
            /\ UNCHANGED wg
       ELSE /\ pc' = [pc EXCEPT ![u] = "run"]
            /\ wg' = [wg EXCEPT ![g] = @ + 1]
    /\ UNCHANGED <<ret, errs, merr, cancelled>>
MEGoNoAdd(g, u) ==
    /\ pc[u] = "idle"
    /\ pc' = [pc EXCEPT ![u] = "run"]
    /\ UNCHANGED <<wg, ret, errs, merr, cancelled>>
MEGo(g, u) ==
    /\ pc[u] = "idle"
    /\ wg' = [wg EXCEPT ![g] = @ + 1]
    /\ pc' = [pc EXCEPT ![u] = "run"]
    /\ UNCHANGED <<ret, errs, merr, cancelled>>

\* f() has returned r: the goroutine goes on to the error branch or to the
\* deferred wg.Done.
Returned(u, r) ==
    /\ ret' = [ret EXCEPT ![u] = r]
    /\ pc' = [pc EXCEPT ![u] = IF r = "nil" THEN "exit" ELSE "fail"]

\* me.merr.Lock()
GoLockCancelsFirst(u) ==
    /\ pc[u] = "fail"
    /\ merr[GroupOf(u)] = <<"free", 0>>
    /\ merr' = [merr EXCEPT ![GroupOf(u)] = u]
    /\ cancelled' = [cancelled EXCEPT ![GroupOf(u)] = Cancel(@)]
    /\ pc' = [pc EXCEPT ![u] = "locked"]
    /\ UNCHANGED <<ret, wg, errs>>
GoLock(u) ==
    /\ pc[u] = "fail"
    /\ merr[GroupOf(u)] = <<"free", 0>>
    /\ merr' = [merr EXCEPT ![GroupOf(u)] = u]
    /\ pc' = [pc EXCEPT ![u] = "locked"]
    /\ UNCHANGED <<ret, wg, errs, cancelled>>

\* me.errs = append(me.errs, err); me.merr.Unlock()
GoAppend(u) ==
    /\ pc[u] = "locked"
    /\ errs' = [errs EXCEPT ![GroupOf(u)] = AppendErr(@, <<u, ret[u]>>)]
    /\ merr' = [merr EXCEPT ![GroupOf(u)] = <<"free", 0>>]
    /\ pc' = [pc EXCEPT ![u] = "cancel"]
    /\ UNCHANGED <<ret, wg, cancelled>>

\* me.cancel()
GoCancel(u) ==
    /\ pc[u] = "cancel"
    /\ cancelled' = [cancelled EXCEPT ![GroupOf(u)] = Cancel(@)]
    /\ pc' = [pc EXCEPT ![u] = "exit"]
    /\ UNCHANGED <<ret, wg, errs, merr>>

\* defer me.wg.Done()
GoDoneSkipped(u) ==
    /\ pc[u] = "exit"
    /\ pc' = [pc EXCEPT ![u] = "done"]
    /\ UNCHANGED <<wg, ret, errs, merr, cancelled>>
GoDone(u) ==
    /\ pc[u] = "exit"
    /\ wg' = [wg EXCEPT ![GroupOf(u)] = @ - 1]
    /\ pc' = [pc EXCEPT ![u] = "done"]
    /\ UNCHANGED <<ret, errs, merr, cancelled>>

\* os.Exit has not been called.
Running == exitCode = -1

\* The goroutine Go starts, after f() has returned.
GoWrapper(u) ==
    /\ Running
    /\ \/ GoLock(u)
       \/ GoAppend(u)
       \/ GoCancel(u)
       \/ GoDone(u)
    /\ UNCHANGED <<interrupted, call, dstStat, eg, mainPc, snap, waited>>
    /\ UNCHANGED pipeVars

\* The number of units Go has started.
Started == Cardinality({u \in Units : pc[u] # "idle"})

\* Wait: me.wg.Wait()
WaitWg ==
    /\ mainPc = "wait"
    /\ WgZero(eg)
    /\ mainPc' = "snapshot"
    /\ UNCHANGED <<snap, waited>>
    /\ UNCHANGED meVars

\* Wait: me.merr.Lock(); errs = me.errs; me.errs = nil; me.merr.Unlock()
WaitSnapshot ==
    /\ mainPc = "snapshot"
    /\ merr[eg] = <<"free", 0>>
    /\ snap' = errs[eg]
    /\ errs' = [errs EXCEPT ![eg] = Cleared(@)]
    /\ mainPc' = "waitcancel"
    /\ UNCHANGED <<pc, ret, wg, merr, cancelled, waited>>

\* Wait: return errs, running the deferred me.cancel()
WaitReturn ==
    /\ mainPc = "waitcancel"
    /\ cancelled' = [cancelled EXCEPT ![eg] = Cancel(@)]
    /\ waited' = Append(waited, snap)
    /\ startedAt' = Append(startedAt, Started)
    /\ snap' = EmptyBag
    /\ mainPc' = "returned"
    /\ UNCHANGED <<pc, ret, wg, errs, merr>>

Wait ==
    /\ Running
    /\ \/ WaitWg /\ UNCHANGED startedAt
       \/ WaitSnapshot /\ UNCHANGED startedAt
       \/ WaitReturn
    /\ UNCHANGED <<interrupted, call, dstStat, eg, pages, colPc, colPage,
                   pagecClosed, loaded, files, outDir, exitCode>>

\* ------------------------------------------------------ the collector
\* sort.Search(n, f): the smallest i in [0, n] with f(i), by binary search
\* (f is assumed false on a prefix and true on the rest).  f(h) is
\* page.Meta["time"].After(pages[h].Meta["time"]); pages is 0-based in the
\* code and 1-based here.
AfterSwapped(a, b) == a < b
AfterOrEqual(a, b) == a >= b
After(a, b) == a > b

RECURSIVE Search(_, _, _, _)
Search(i, j, page, seq) ==
    IF i < j
    THEN LET h == (i + j) \div 2
         IN IF ~After(page.time, seq[h + 1].time)
            THEN Search(h + 1, j, page, seq)
            ELSE Search(i, h, page, seq)
    ELSE i

\* pages = append(pages, nil); copy(pages[i+1:], pages[i:]); pages[i] = page
InsertAtOverwrite(seq, i, page) ==
    IF i + 1 > Len(seq) THEN Append(seq, page)
    ELSE [seq EXCEPT ![i + 1] = page]
InsertAt(seq, i, page) ==
    [k \in 1 .. Len(seq) + 1 |->
        IF k < i + 1 THEN seq[k]
        ELSE IF k = i + 1 THEN page
        ELSE seq[k - 1]]

Insert(seq, page) == InsertAt(seq, Search(0, Len(seq), page, seq), page)

\* --------------------------------------------------------------- inputs
\* The sequences over S of length up to n.
RECURSIVE SeqsUpTo(_, _)
SeqsUpTo(S, n) ==
    IF n = 0 THEN {<<>>}
    ELSE SeqsUpTo(S, n - 1)
         \cup {Append(q, x) : q \in {t \in SeqsUpTo(S, n - 1) :
                                        Len(t) = n - 1}, x \in S}

\* The modification time of the d-th source file.
ModTime(d) == d

\* File names are strings over these characters.
NameChars == {"a", ".", "m", "d"}
Names == SeqsUpTo(NameChars, MaxName) \ {<<>>}

\* filepath.Ext: the suffix beginning at the last dot, "" if there is none
\* (the names of a directory listing hold no separator).
RECURSIVE LastDot(_, _)
LastDot(path, i) ==
    IF i = 0 THEN 0
    ELSE IF path[i] = "." THEN i
    ELSE LastDot(path, i - 1)

Ext(path) ==
    IF LastDot(path, Len(path)) = 0 THEN <<>>
    ELSE SubSeq(path, LastDot(path, Len(path)), Len(path))

\* filepath.Base of a non-empty name without separators is the name.
Base(path) == IF path = <<>> THEN <<".">> ELSE path

\* RemoveExt: ext := filepath.Ext(path); return path[:len(path)-len(ext)]
RemoveExt(path) == SubSeq(path, 1, Len(path) - Len(Ext(path)))

\* main: strings.ToLower(filepath.Ext(file.Name())) != ".md" is skipped
\* (the characters of NameChars are lower case).
IsMarkdown(name) == Ext(name) = <<".", "m", "d">>

StringValue(str) == [kind |-> "string", s |-> str, t |-> 0]
TimeValue(t) == [kind |-> "time", s |-> <<>>, t |-> t]

\* defaultMeta
DefaultMeta(k, file) ==
    IF k = "title" THEN StringValue(RemoveExt(Base(file.name)))
    ELSE TimeValue(file.modTime)

DefaultKeys == {"title", "time"}

\* The maps getMeta returns for the metadata a source may carry: none, or
\* a title (empty or not), or a time, or both.  yaml.Unmarshal gives a
\* time.Time for a YAML timestamp and a string for other text.
SourceTitles == {<<>>, <<"B">>}
SourceTimes ==
    {TimeValue(t) : t \in 1 .. MaxTime} \cup {StringValue(<<"B">>)}
SourceMetas ==
    {[k \in {} |-> StringValue(<<>>)]}
    \cup {[k \in {"title"} |-> StringValue(str)] : str \in SourceTitles}
    \cup {[k \in {"time"} |-> v] : v \in SourceTimes}
    \cup {[k \in DefaultKeys |->
              IF k = "title" THEN StringValue(str) ELSE v] :
          str \in SourceTitles, v \in SourceTimes}

\* page.Meta["time"].(time.Time): the type assertion panics on a value of
\* another type.
AssertTime(v) == IF v.kind = "time" THEN "ok" ELSE "panic"

\* for k, f := range defaultMeta: one iteration, for key k
\* if _, ok := meta[k]; ok { continue }; meta[k] = f(inputInfo)
BackFillAlways(meta, k, file) ==
    [j \in DOMAIN meta \cup {k} |->
        IF j = k THEN DefaultMeta(k, file) ELSE meta[j]]
BackFill(meta, k, file) ==
    IF k \in DOMAIN meta THEN meta
    ELSE [j \in DOMAIN meta \cup {k} |->
             IF j = k THEN DefaultMeta(k, file) ELSE meta[j]]

\* The default back-fill of both keys; the result does not depend on the
\* order of the range over defaultMeta, since an iteration reads and
\* writes its own key only.
BackFillAll(meta, file) ==
    BackFill(BackFill(meta, "title", file), "time", file)

\* The source directory: the d-th file is a.md, b.md, ...
FileLetters == <<"a", "b", "c", "d">>
FileName(d) == <<FileLetters[d], ".", "m", "d">>
File(d) == [name |-> FileName(d), modTime |-> ModTime(d)]

\* The metadata of the sources: b.md carries title "B" and its own
\* modification time as time; every other file carries no metadata block
\* or one with the title "b".
NoMeta == [k \in {} |-> StringValue(<<>>)]
SourceMetaOf(d) ==
    IF d = 2
    THEN {[k \in DefaultKeys |->
              IF k = "title" THEN StringValue(<<"B">>)
              ELSE TimeValue(ModTime(d))]}
    ELSE {NoMeta, [k \in {"title"} |-> StringValue(<<"b">>)]}

\* slug.Make on a title of letters: the letters in lower case.
Lower(c) == IF c = "A" THEN "a" ELSE IF c = "B" THEN "b" ELSE c
Slug(title) == [i \in 1 .. Len(title) |-> Lower(title[i])]

\* Paths under flags.Output: index.html, the Output of each page
\* (slug.Make(fmt.Sprint(page.Meta["title"])) + ".html"), and the
\* destination of each -extras pair.
IndexPath == <<"i", "n", "d", "e", "x", ".html">>
PagePath(page) == Slug(page.title) \o <<".html">>
ExtraNames == <<"x", "y">>
ExtraPath(e) == <<ExtraNames[e], ".css">>
Titles ==
    UNION {{BackFillAll(src, File(d))["title"].s : src \in SourceMetaOf(d)} :
           d \in Docs}
Paths ==
    {IndexPath} \cup {Slug(title) \o <<".html">> : title \in Titles}
       \cup {ExtraPath(e) : e \in Extras}

\* --------------------------------------------------------------- Init
NoPage == [doc |-> 0, time |-> 0, title |-> <<>>, src |-> NoMeta]
\* No function is being called on its own.
NoCall == [fn |-> "none"]

Init ==
    /\ pc = [u \in Units |-> "idle"]
    /\ ret = [u \in Units |-> "none"]
    /\ wg = [g \in Groups |-> 0]
    /\ errs = [g \in Groups |-> EmptyBag]
    /\ merr = [g \in Groups |-> <<"free", 0>>]
    /\ cancelled = [g \in Groups |-> FALSE]
    /\ interrupted = FALSE
    /\ eg = 0
    /\ mainPc = "start"
    /\ snap = EmptyBag
    /\ waited = <<>>
    /\ startedAt = <<>>
    /\ pages = <<>>
    /\ colPc = "idle"
    /\ colPage = NoPage
    /\ pagecClosed = FALSE
    /\ loaded = [d \in Docs |-> NoPage]
    /\ files = [p \in Paths |-> "untouched"]
    /\ outDir = FALSE
    /\ exitCode = -1
    /\ dstStat = [d \in Docs |-> "none"]
    /\ call = NoCall

\* ------------------------------------------------- SpecME: the package
\* multierr.WithContext(context.Background())
ApiWithContext ==
    /\ mainPc = "start"
    /\ eg' = 1
    /\ mainPc' = "caller"
    /\ UNCHANGED <<interrupted, call, dstStat, snap, waited>>
    /\ UNCHANGED meVars
    /\ UNCHANGED pipeVars

\* The caller starts the next unit: me.Go(f).
ApiGo ==
    /\ mainPc = "caller"
    /\ \E u \in ApiUnits :
          /\ \A v \in ApiUnits : v[2] < u[2] => pc[v] # "idle"
          /\ MEGo(1, u)
    /\ UNCHANGED <<interrupted, call, dstStat, eg, mainPc, snap, waited>>
    /\ UNCHANGED pipeVars

\* f(): a unit of work that does not look at the context.  It returns nil
\* or an error.
ApiRun(u) ==
    /\ u \in ApiUnits
    /\ pc[u] = "run"
    /\ \E r \in {"nil", "err"} : Returned(u, r)
    /\ UNCHANGED <<wg, errs, merr, cancelled, interrupted, call, dstStat, eg,
                   mainPc, snap, waited>>
    /\ UNCHANGED pipeVars

\* The caller calls me.Wait().
ApiWait ==
    /\ mainPc = "caller"
    /\ Len(waited) < MaxWaits
    /\ mainPc' = "wait"
    /\ UNCHANGED <<interrupted, call, dstStat, eg, snap, waited>>
    /\ UNCHANGED meVars
    /\ UNCHANGED pipeVars

\* Wait has returned to the caller.
ApiResume ==
    /\ mainPc = "returned"
    /\ mainPc' = "caller"
    /\ UNCHANGED <<interrupted, call, dstStat, eg, snap, waited>>
    /\ UNCHANGED meVars
    /\ UNCHANGED pipeVars

NextME ==
    \/ ApiWithContext
    \/ ApiGo
    \/ ApiWait
    \/ ApiResume
    \/ Wait
    \/ \E u \in ApiUnits : ApiRun(u)
    \/ \E u \in ApiUnits : GoWrapper(u)

SpecME == Init /\ [][NextME]_vars

\* ----------------------------------------------------- main: load phase
\* go func() { for page := range pagec ... }(); eg, ctx := WithContext(ctx)
MainStart ==
    /\ Running
    /\ mainPc = "start"
    /\ colPc' = "recv"
    /\ eg' = 1
    /\ mainPc' = "spawn"
    /\ UNCHANGED <<interrupted, call, dstStat, snap, waited, startedAt, pages,
                   colPage, pagecClosed, loaded, files, outDir, exitCode>>
    /\ UNCHANGED meVars

\* for _, file := range files { eg.Go(func() error { ... }) }; the loop
\* ends with the call of eg.Wait().
MainGoLoad ==
    /\ Running
    /\ mainPc = "spawn"
    /\ eg = 1
    /\ \E d \in Docs :
          /\ \A c \in Docs : c < d => pc[<<"load", c>>] # "idle"
          /\ MEGo(1, <<"load", d>>)
          /\ mainPc' = IF d = NDocs THEN "wait" ELSE "spawn"
    /\ UNCHANGED <<interrupted, call, dstStat, eg, snap, waited>>
    /\ UNCHANGED pipeVars

\* readFile(path): (nil, err) when os.Open fails; otherwise a buffer from
\* the pool, with the error of io.Copy.
ReadOutcomes == {"open", "copy", "nil"}
ReadFile(r) == [buf |-> IF r = "open" THEN "nil" ELSE "buffer",
                err |-> r # "nil"]

\* bufpool.Put(buf): buf.Reset(); bufPool.Put(buf).  Reset on a nil
\* *bytes.Buffer dereferences it: a run-time panic.
PutPanics(buf) == buf = "nil"

\* LoadPage(path, data): buf, err := readFile(path);
\* defer bufpool.Put(buf); if err != nil { return nil, err }.  It goes on
\* to os.Stat and getMeta (an error of these is "read" as well) and to
\* the body and template pass ("render"); on success it returns the page,
\* rendered in memory.
LoadErrors == {"read", "render"}

\* A panic in a goroutine ends the process with exit status 2.
LoadRun(u) ==
    /\ Running
    /\ u \in LoadUnits
    /\ pc[u] = "run"
    /\ \/ /\ \E r \in ReadOutcomes :
                /\ ReadFile(r).err
                /\ IF PutPanics(ReadFile(r).buf)
                   THEN /\ pc' = [pc EXCEPT ![u] = "panic"]
                        /\ exitCode' = 2
                        /\ UNCHANGED ret
                   ELSE /\ Returned(u, "read")
                        /\ UNCHANGED exitCode
          /\ UNCHANGED loaded
       \/ /\ Returned(u, "render")
          /\ UNCHANGED <<loaded, exitCode>>
       \/ /\ \E src \in SourceMetaOf(u[2]) :
                LET meta == BackFillAll(src, File(u[2]))
                IN loaded' = [loaded EXCEPT ![u[2]] =
                                 [doc |-> u[2], time |-> meta["time"].t,
                                  title |-> meta["title"].s, src |-> src]]
          /\ pc' = [pc EXCEPT ![u] = "select"]
          /\ UNCHANGED <<ret, exitCode>>
    /\ UNCHANGED <<wg, errs, merr, cancelled, interrupted, call, dstStat,
                   eg, mainPc, snap, waited, startedAt, pages, colPc,
                   colPage, pagecClosed, files, outDir>>

\* select { case <-ctx.Done(): return ctx.Err() ... }
LoadCancelledNil(u) ==
    /\ Running
    /\ u \in LoadUnits
    /\ pc[u] = "select"
    /\ CtxDone(1)
    /\ Returned(u, "nil")
    /\ UNCHANGED <<wg, errs, merr, cancelled, interrupted, call, dstStat, eg,
                   mainPc, snap, waited>>
    /\ UNCHANGED pipeVars
LoadCancelled(u) ==
    /\ Running
    /\ u \in LoadUnits
    /\ pc[u] = "select"
    /\ CtxDone(1)
    /\ Returned(u, "ctx")
    /\ UNCHANGED <<wg, errs, merr, cancelled, interrupted, call, dstStat, eg,
                   mainPc, snap, waited>>
    /\ UNCHANGED pipeVars

\* select { ... case pagec <- page: return nil }, together with the
\* collector's receive: pagec is unbuffered.
LoadHandoffThenCheck(u) ==
    /\ Running
    /\ u \in LoadUnits
    /\ pc[u] = "select"
    /\ colPc = "recv"
    /\ ~pagecClosed
    /\ colPage' = loaded[u[2]]
    /\ colPc' = "insert"
    /\ Returned(u, IF CtxDone(1) THEN "ctx" ELSE "nil")
    /\ UNCHANGED <<wg, errs, merr, cancelled, interrupted, call, dstStat, eg,
                   mainPc, snap, waited, startedAt, pages, pagecClosed,
                   loaded, files, outDir, exitCode>>
LoadHandoff(u) ==
    /\ Running
    /\ u \in LoadUnits
    /\ pc[u] = "select"
    /\ colPc = "recv"
    /\ ~pagecClosed
    /\ colPage' = loaded[u[2]]
    /\ colPc' = "insert"
    /\ Returned(u, "nil")
    /\ UNCHANGED <<wg, errs, merr, cancelled, interrupted, call, dstStat, eg,
                   mainPc, snap, waited, startedAt, pages, pagecClosed,
                   loaded, files, outDir, exitCode>>

\* The collector's loop body: binary search and insertion.
CollectorInsert ==
    /\ Running
    /\ colPc = "insert"
    /\ pages' = Insert(pages, colPage)
    /\ colPage' = NoPage
    /\ colPc' = "recv"
    /\ UNCHANGED <<interrupted, call, dstStat, eg, mainPc, snap, waited,
                   startedAt, pagecClosed, loaded, files, outDir, exitCode>>
    /\ UNCHANGED meVars

\* for page := range pagec: the loop ends when pagec is closed (pagec is
\* unbuffered: nothing is left in it).
RangeEndsEarly == TRUE
RangeEnds == pagecClosed

\* The range loop ends on the closed channel: defer close(pagesDone).
CollectorDone ==
    /\ Running
    /\ colPc = "recv"
    /\ RangeEnds
    /\ colPc' = "done"
    /\ UNCHANGED <<interrupted, call, dstStat, eg, mainPc, snap, waited,
                   startedAt, pages, colPage, pagecClosed, loaded, files,
                   outDir, exitCode>>
    /\ UNCHANGED meVars

\* len(errs) > 0
HasErrorsUnchecked(list) == FALSE
HasErrorsOnlyMany(list) == BagCardinality(list) > 1
HasErrors(list) == BagCardinality(list) > 0

\* if len(errs) > 0 { printErrors(...); os.Exit(1) }; the return from main
\* is exit status 0.
ExitStatusZero(list) == 0
ExitStatus(list) == IF HasErrors(list) THEN 1 ELSE 0

\* errs := eg.Wait(); if len(errs) > 0 { ...; os.Exit(1) }; close(pagec)
MainCheckLoad ==
    /\ Running
    /\ mainPc = "returned"
    /\ eg = 1
    /\ IF HasErrors(waited[Len(waited)])
       THEN /\ exitCode' = ExitStatus(waited[Len(waited)])
            /\ mainPc' = "exited"
            /\ UNCHANGED pagecClosed
       ELSE /\ pagecClosed' = TRUE
            /\ mainPc' = "pagesDone"
            /\ UNCHANGED exitCode
    /\ UNCHANGED <<interrupted, call, dstStat, eg, snap, waited, startedAt,
                   pages, colPc, colPage, loaded, files, outDir>>
    /\ UNCHANGED meVars

\* ------------------------------------------------- main: generate phase
\* <-pagesDone; err = os.MkdirAll(flags.Output, 0755);
\* eg, ctx = multierr.WithContext(ctx)
PagesDoneSkipped == TRUE
PagesDone == colPc = "done"

MainMkdir ==
    /\ Running
    /\ mainPc = "pagesDone"
    /\ PagesDone
    /\ \E ok \in BOOLEAN :
          IF ok
          THEN /\ outDir' = TRUE
               /\ eg' = 2
               /\ mainPc' = "goindex"
               /\ UNCHANGED exitCode
          ELSE /\ exitCode' = 1
               /\ mainPc' = "exited"
               /\ UNCHANGED <<outDir, eg>>
    /\ UNCHANGED <<interrupted, call, dstStat, snap, waited, startedAt, pages,
                   colPc, colPage, pagecClosed, loaded, files>>
    /\ UNCHANGED meVars

\* eg.Go(func() error { ... genIndex ... })
MainGoIndex ==
    /\ Running
    /\ mainPc = "goindex"
    /\ MEGo(2, IndexUnit)
    /\ mainPc' = "gopages"
    /\ UNCHANGED <<interrupted, call, dstStat, eg, snap, waited>>
    /\ UNCHANGED pipeVars

\* The number of page workers started so far.
PagesStarted == Cardinality({u \in PageUnits : pc[u] # "idle"})

\* for _, page := range pages { eg.Go(func() error { ... }) }
MainGoPage ==
    /\ Running
    /\ mainPc = "gopages"
    /\ PagesStarted < Len(pages)
    /\ MEGo(2, <<"page", pages[PagesStarted + 1].doc>>)
    /\ mainPc' = IF PagesStarted + 1 = Len(pages) THEN "goextras"
                 ELSE "gopages"
    /\ UNCHANGED <<interrupted, call, dstStat, eg, snap, waited>>
    /\ UNCHANGED pipeVars

\* for src, dst := range flags.Extras { eg.Go(func() error { ... }) }; the
\* loop ends with the call of eg.Wait().
MainGoExtra ==
    /\ Running
    /\ mainPc = "goextras"
    /\ \E e \in Extras :
          /\ \A c \in Extras : c < e => pc[<<"extra", c>>] # "idle"
          /\ MEGo(2, <<"extra", e>>)
          /\ mainPc' = IF \A c \in Extras : c <= e THEN "wait"
                       ELSE "goextras"
    /\ UNCHANGED <<interrupted, call, dstStat, eg, snap, waited>>
    /\ UNCHANGED pipeVars

\* file, err := os.Create(path); err = tmpl.Execute(file, ...): the
\* template is executed into the open file.  A failed Create leaves the
\* path alone; a failed Execute leaves the created file with whatever was
\* written before the failure.
WriteOutcomes == {"create", "execute", "nil"}

Written(old, r) ==
    IF r = "create" THEN old
    ELSE IF r = "execute" THEN "partial"
    ELSE "full"

CreateAndExecute(u, path) ==
    \E r \in WriteOutcomes :
       /\ files' = [files EXCEPT ![path] = Written(@, r)]
       /\ Returned(u, IF r = "nil" THEN "nil" ELSE "err")

\* The index unit: if !flags.GenIndex { return nil }; genIndex(...)
IndexRun ==
    /\ Running
    /\ pc[IndexUnit] = "run"
    /\ \E genIndex \in BOOLEAN :
          IF genIndex
          THEN CreateAndExecute(IndexUnit, IndexPath)
          ELSE /\ Returned(IndexUnit, "nil")
               /\ UNCHANGED files
    /\ UNCHANGED <<wg, errs, merr, cancelled, interrupted, call, dstStat, eg,
                   mainPc, snap, waited, startedAt, pages, colPc, colPage,
                   pagecClosed, loaded, outDir, exitCode>>

\* What os.Stat(path) reports: the file's info, an error for which
\* os.IsNotExist holds, or another error.
StatOutcomes == {"exists", "absent", "error"}

\* fileExists(path): _, err := os.Stat(path); ok := !os.IsNotExist(err);
\* if ok && (err != nil) { return ok, err }; return ok, nil
FileExistsNoError(r) == [ok |-> r # "absent", err |-> FALSE]
FileExists(r) ==
    LET err == r # "exists"
        ok == r # "absent"
    IN IF ok /\ err THEN [ok |-> ok, err |-> TRUE]
       ELSE [ok |-> ok, err |-> FALSE]

\* A page worker: ok, err := fileExists(path);
\* if ok || (err != nil) { return err }; file, err := os.Create(path).
\* The worker returns the error, returns nil without writing, or goes on
\* to write the page.
PageDecisionRebuilds(r) == IF FileExists(r).err THEN "error" ELSE "rebuild"
PageDecision(r) ==
    IF FileExists(r).ok \/ FileExists(r).err
    THEN IF FileExists(r).err THEN "error" ELSE "skip"
    ELSE "rebuild"

PageStat(u) ==
    /\ Running
    /\ u \in PageUnits
    /\ pc[u] = "run"
    /\ \E r \in StatOutcomes :
          /\ r = "absent" => files[PagePath(loaded[u[2]])] = "untouched"
          /\ dstStat' = [dstStat EXCEPT ![u[2]] = r]
          /\ IF PageDecision(r) = "rebuild"
             THEN /\ pc' = [pc EXCEPT ![u] = "create"]
                  /\ UNCHANGED ret
             ELSE Returned(u, IF PageDecision(r) = "error" THEN "stat"
                              ELSE "nil")
    /\ UNCHANGED <<wg, errs, merr, cancelled, interrupted, call, eg, mainPc,
                   snap, waited>>
    /\ UNCHANGED pipeVars

\* A page worker: os.Create(path); page.Execute(file, pageTmpl, data)
PageWrite(u) ==
    /\ Running
    /\ u \in PageUnits
    /\ pc[u] = "create"
    /\ CreateAndExecute(u, PagePath(loaded[u[2]]))
    /\ UNCHANGED <<wg, errs, merr, cancelled, interrupted, call, dstStat, eg,
                   mainPc, snap, waited, startedAt, pages, colPc, colPage,
                   pagecClosed, loaded, outDir, exitCode>>

\* An extras worker: os.Create(path); extraTmpls.ExecuteTemplate(file, ...)
ExtraRun(u) ==
    /\ Running
    /\ u \in ExtraUnits
    /\ pc[u] = "run"
    /\ CreateAndExecute(u, ExtraPath(u[2]))
    /\ UNCHANGED <<wg, errs, merr, cancelled, interrupted, call, dstStat, eg,
                   mainPc, snap, waited, startedAt, pages, colPc, colPage,
                   pagecClosed, loaded, outDir, exitCode>>

\* errs = eg.Wait(); if len(errs) > 0 { ...; os.Exit(1) }
MainFinish ==
    /\ Running
    /\ mainPc = "returned"
    /\ eg = 2
    /\ exitCode' = ExitStatus(waited[Len(waited)])
    /\ mainPc' = "exited"
    /\ UNCHANGED <<interrupted, call, dstStat, eg, snap, waited, startedAt,
                   pages, colPc, colPage, pagecClosed, loaded, files, outDir>>
    /\ UNCHANGED meVars

\* The os.Interrupt signal arrives: the signal context is done.
Interrupt ==
    /\ Running
    /\ eg # 0
    /\ ~interrupted
    /\ interrupted' = TRUE
    /\ UNCHANGED <<call, dstStat, eg, mainPc, snap, waited>>
    /\ UNCHANGED meVars
    /\ UNCHANGED pipeVars

Next ==
    \/ MainStart
    \/ MainGoLoad
    \/ MainCheckLoad
    \/ MainMkdir
    \/ MainGoIndex
    \/ MainGoPage
    \/ MainGoExtra
    \/ MainFinish
    \/ IndexRun
    \/ Wait
    \/ CollectorInsert
    \/ CollectorDone
    \/ Interrupt
    \/ \E u \in LoadUnits : LoadRun(u)
    \/ \E u \in LoadUnits : LoadCancelled(u)
    \/ \E u \in LoadUnits : LoadHandoff(u)
    \/ \E u \in PageUnits : PageStat(u)
    \/ \E u \in PageUnits : PageWrite(u)
    \/ \E u \in ExtraUnits : ExtraRun(u)
    \/ \E u \in Units \ ApiUnits : GoWrapper(u)

Spec == Init /\ [][Next]_vars

\* ------------------------------------------------ SpecFair: load phase
\* The load phase of main on its own, up to the start of the generate
\* phase, with its goroutines: main, the collector, and one per load
\* worker.  The Go scheduler lets every goroutine that can run take its
\* next step; the interrupt is the environment's and may never come.
MainLoadStep ==
    \/ MainStart
    \/ MainGoLoad
    \/ MainCheckLoad
    \/ MainMkdir
    \/ Wait

CollectorStep == CollectorInsert \/ CollectorDone

LoadStep(u) ==
    \/ LoadRun(u)
    \/ LoadCancelled(u)
    \/ LoadHandoff(u)
    \/ GoWrapper(u)

NextLoad ==
    \/ MainLoadStep
    \/ CollectorStep
    \/ Interrupt
    \/ \E u \in LoadUnits : LoadStep(u)

Fairness ==
    /\ WF_vars(MainLoadStep)
    /\ WF_vars(CollectorStep)
    /\ \A u \in LoadUnits : WF_vars(LoadStep(u))

SpecFair == Init /\ [][NextLoad]_vars /\ Fairness

\* ------------------------------------- SpecStale: the staleness decision
\* The decision whether a page is written, taken on its own: for a source
\* modification time and a state of the destination, as processPage takes
\* it (by modification times) and as the page worker of main takes it (by
\* existence).
Times == 1 .. MaxTime

\* What os.Stat(dst) finds: no file, an error other than non-existence,
\* or a file with its modification time.
DstStates ==
    {[stat |-> "absent", mod |-> 0], [stat |-> "error", mod |-> 0]}
    \cup {[stat |-> "exists", mod |-> t] : t \in Times}

\* processPage: dstinfo, err := os.Stat(dst);
\* if (err != nil) && !os.IsNotExist(err) { return nil, fmt.Errorf(...) };
\* if (dstinfo != nil) && dstinfo.ModTime().After(srcInfo.ModTime()) {
\*     return nil, ctx.Err() }; out, err := os.Create(dst)
ProcessPageSkipsEqual(src, dst) ==
    IF dst.stat = "error" THEN "error"
    ELSE IF dst.stat = "exists" /\ ~After(src, dst.mod) THEN "skip"
    ELSE "rebuild"
ProcessPageDecision(src, dst) ==
    IF dst.stat = "error" THEN "error"
    ELSE IF dst.stat = "exists" /\ After(dst.mod, src) THEN "skip"
    ELSE "rebuild"

StaleCall ==
    /\ call = NoCall
    /\ \E fn \in {"processPage", "page"}, src \in Times, dst \in DstStates :
          call' = [fn |-> fn, src |-> src, dst |-> dst, out |-> "none"]
    /\ UNCHANGED progVars

StaleProcessPage ==
    /\ call.fn = "processPage"
    /\ call.out = "none"
    /\ call' = [call EXCEPT !.out = ProcessPageDecision(call.src, call.dst)]
    /\ UNCHANGED progVars

StalePage ==
    /\ call.fn = "page"
    /\ call.out = "none"
    /\ call' = [call EXCEPT !.out = PageDecision(call.dst.stat)]
    /\ UNCHANGED progVars

StaleReturn ==
    /\ call.fn \in {"processPage", "page"}
    /\ call.out # "none"
    /\ call' = NoCall
    /\ UNCHANGED progVars

NextStale ==
    \/ StaleCall
    \/ StaleProcessPage
    \/ StalePage
    \/ StaleReturn

SpecStale == Init /\ [][NextStale]_vars

\* --------------------------------------------------- SpecMeta: getMeta
\* A parsed document is the sequence of its block nodes in the order in
\* which Walk enters them.  A block is an HTMLBlock, with the tree that
\* html.Parse makes of its Literal, or a block of another type.  An html
\* node is a comment with its Data, or another node with its children.
\* Data is a sequence of symbols: letters, and the lines of a YAML text
\* ("k1", "k2": a key with a value; "bad": a malformed line).
Comment(data) == [type |-> "comment", data |-> data, kids |-> <<>>]
Element(kids) == [type |-> "element", data |-> <<>>, kids |-> kids]

MetaPrefix == <<"m", "e", "t", "a">>
DataMeta == MetaPrefix \o <<"k1">>
DataMeta2 == MetaPrefix \o <<"k2">>
DataMetaBad == MetaPrefix \o <<"bad">>
DataNote == <<"n", "o", "t", "e", "k2">>
DataShort == <<"m", "e">>

HtmlTrees ==
    { Element(<<Element(<<>>)>>),
      Element(<<Comment(DataMeta)>>),
      Element(<<Comment(DataMeta2)>>),
      Element(<<Comment(DataMetaBad)>>),
      Element(<<Comment(DataNote)>>),
      Element(<<Comment(DataShort)>>),
      Element(<<Element(<<Element(<<>>), Comment(DataMeta)>>)>>),
      Element(<<Comment(DataNote), Comment(DataMeta)>>) }

Blocks ==
    {[type |-> "other", html |-> Element(<<>>)]}
    \cup {[type |-> "HTMLBlock", html |-> h] : h \in HtmlTrees}

Trees == SeqsUpTo(Blocks, MaxBlocks)

\* A []byte: nil, or its symbols.
NilBytes == [some |-> FALSE, data |-> <<>>]
Bytes(data) == [some |-> TRUE, data |-> data]

\* findComment: the Data of the first comment node in depth-first
\* order, nil when there is none.
RECURSIVE FindComment(_)
RECURSIVE FindInChildren(_)
FindInChildren(kids) ==
    IF kids = <<>> THEN NilBytes
    ELSE IF FindComment(Head(kids)).some THEN FindComment(Head(kids))
    ELSE FindInChildren(Tail(kids))
FindComment(node) ==
    IF node.type = "comment" THEN Bytes(node.data)
    ELSE FindInChildren(node.kids)

\* bytes.HasPrefix(comment, []byte("meta"))
HasPrefixAny(b, prefix) == TRUE
HasPrefix(b, prefix) ==
    /\ Len(b.data) >= Len(prefix)
    /\ SubSeq(b.data, 1, Len(prefix)) = prefix

\* A map[string]interface{}: nil or not, and its keys.
EmptyMap == [isNil |-> FALSE, keys |-> {}]

\* yaml.Unmarshal(text, &meta): an error for a malformed text, which is
\* found before anything is decoded; otherwise the keys of the text are
\* set in the map.
Unmarshal(text, meta) ==
    IF \E i \in 1 .. Len(text) : text[i] = "bad"
    THEN [err |-> TRUE, meta |-> meta]
    ELSE [err |-> FALSE,
          meta |-> [isNil |-> FALSE,
                    keys |-> meta.keys
                             \cup {text[i] : i \in 1 .. Len(text)}]]

\* node.Unlink()
UnlinkNothing(tree, i) == tree
Unlink(tree, i) ==
    [k \in 1 .. Len(tree) - 1 |-> IF k < i THEN tree[k] ELSE tree[k + 1]]

\* getMeta(node, unlink): meta = make(map[string]interface{}); node.Walk
MetaCall ==
    /\ call = NoCall
    /\ \E tree \in Trees, unlink \in BOOLEAN :
          call' = [fn |-> "getMeta", node |-> tree, unlink |-> unlink,
                   tree |-> tree, at |-> 1, meta |-> EmptyMap,
                   werr |-> "nil", status |-> "walk", page |-> "none",
                   prev |-> NoCall]
    /\ UNCHANGED progVars

\* The walk function after yaml.Unmarshal has failed:
\* werr = fmt.Errorf("unmarshal: %w", err); return blackfriday.Terminate
DecodeFailedUnlinks(c, text) ==
    [c EXCEPT !.werr = "unmarshal",
              !.meta = Unmarshal(text, @).meta,
              !.tree = IF c.unlink THEN Unlink(@, c.at) ELSE @,
              !.status = "terminate"]
DecodeFailed(c, text) ==
    [c EXCEPT !.werr = "unmarshal",
              !.meta = Unmarshal(text, @).meta,
              !.status = "terminate"]

\* The walk function after yaml.Unmarshal has succeeded:
\* if unlink { node.Unlink() }; return blackfriday.Terminate
DecodedGoToNext(c, text) ==
    [c EXCEPT !.meta = Unmarshal(text, @).meta,
              !.tree = IF c.unlink THEN Unlink(@, c.at) ELSE @,
              !.at = IF c.unlink THEN @ ELSE @ + 1]
Decoded(c, text) ==
    [c EXCEPT !.meta = Unmarshal(text, @).meta,
              !.tree = IF c.unlink THEN Unlink(@, c.at) ELSE @,
              !.status = "terminate"]

\* The function getMeta hands to Walk, called on entering block call.at;
\* Walk ends after the last block or when the function returns Terminate.
MetaVisit ==
    /\ call.fn = "getMeta"
    /\ call.status = "walk"
    /\ call.at <= Len(call.tree)
    /\ LET node == call.tree[call.at]
           comment == FindComment(node.html)
           text == SubSeq(comment.data, 5, Len(comment.data))
       IN IF node.type # "HTMLBlock" \/ ~HasPrefix(comment, MetaPrefix)
          THEN call' = [call EXCEPT !.at = @ + 1]
          ELSE IF ~comment.some
          THEN call' = [call EXCEPT !.at = @ + 1]
          ELSE IF Unmarshal(text, call.meta).err
          THEN call' = DecodeFailed(call, text)
          ELSE call' = Decoded(call, text)
    /\ UNCHANGED progVars

\* return meta, werr
MetaReturn ==
    /\ call.fn = "getMeta"
    /\ \/ call.status = "terminate"
       \/ call.status = "walk" /\ call.at > Len(call.tree)
    /\ call' = [call EXCEPT !.status = "returned"]
    /\ UNCHANGED progVars

\* LoadPage: meta, err := getMeta(node, true);
\* if err != nil { return nil, fmt.Errorf("get meta: %w", err) }; it goes
\* on to make the page.  The load worker sends a page only if LoadPage
\* returned one.
MetaLoadPage ==
    /\ call.fn = "getMeta"
    /\ call.status = "returned"
    /\ call' = [call EXCEPT !.status = "loadpage",
                            !.page = IF call.werr # "nil" THEN "nil"
                                     ELSE "page"]
    /\ UNCHANGED progVars

\* getMeta is called again, on the tree the first call has left.
MetaAgain ==
    /\ call.fn = "getMeta"
    /\ call.status = "returned"
    /\ call.prev = NoCall
    /\ \E unlink \in BOOLEAN :
          call' = [fn |-> "getMeta", node |-> call.tree, unlink |-> unlink,
                   tree |-> call.tree, at |-> 1, meta |-> EmptyMap,
                   werr |-> "nil", status |-> "walk", page |-> "none",
                   prev |-> call]
    /\ UNCHANGED progVars

\* The caller goes on.
MetaDone ==
    /\ call.fn = "getMeta"
    /\ call.status = "loadpage"
    /\ call' = NoCall
    /\ UNCHANGED progVars

NextMeta ==
    \/ MetaCall
    \/ MetaVisit
    \/ MetaReturn
    \/ MetaLoadPage
    \/ MetaAgain
    \/ MetaDone

SpecMeta == Init /\ [][NextMeta]_vars

\* ================================================================ claims
\* The error values a unit can return.
ErrorValues == {"err", "read", "render", "ctx", "stat"}
Failed(u) == ret[u] \in ErrorValues

\* The number of entries of unit u in a list.
Entries(u, list) ==
    CopiesIn(<<u, "err">>, list) + CopiesIn(<<u, "read">>, list)
    + CopiesIn(<<u, "render">>, list) + CopiesIn(<<u, "ctx">>, list)
    + CopiesIn(<<u, "stat">>, list)

RECURSIVE SumBags(_)
SumBags(seq) ==
    IF seq = <<>> THEN EmptyBag ELSE Head(seq) (+) SumBags(Tail(seq))

\* Everything the Wait calls have returned so far.
AllWaited == SumBags(waited)

\* C1: when Wait returns, the returned lists hold exactly one entry, the
\* unit's own error, for every unit that returned a non-nil error and no
\* entry for a unit that returned nil, whatever the interleaving of the
\* units was: no error is lost or duplicated, and the list is not cut to
\* the first error.
C1_WaitReturnsEveryError ==
    mainPc = "returned" =>
        /\ \A u \in ApiUnits :
              /\ Failed(u) => CopiesIn(<<u, ret[u]>>, AllWaited) = 1
              /\ Entries(u, AllWaited) = IF Failed(u) THEN 1 ELSE 0
        /\ BagCardinality(AllWaited)
              = Cardinality({u \in ApiUnits : Failed(u)})

C1_Witness ==
    /\ mainPc = "returned"
    /\ Len(waited) = 1
    /\ BagCardinality(waited[1]) >= 2
    /\ \E u \in ApiUnits : pc[u] = "done" /\ ret[u] = "nil"

\* C2: Wait does not return while a unit of the group is still running: from
\* the moment wg.Wait() has returned until Wait's caller goes on, the
\* counter is zero and every unit of the phase has been started and has
\* finished.
PhaseUnits(g) == IF g = 1 THEN LoadUnits ELSE GenUnits

C2_WaitReturnsAfterAllUnits ==
    mainPc \in {"snapshot", "waitcancel", "returned"} =>
        /\ wg[eg] = 0
        /\ \A u \in PhaseUnits(eg) : pc[u] = "done"

C2_Witness ==
    /\ mainPc = "returned"
    /\ eg = 2
    /\ \A u \in GenUnits : pc[u] = "done"
    /\ \E u \in GenUnits : Failed(u)

\* C3: a unit that returned a non-nil error has, by the time it ends,
\* appended its error and triggered the group's cancellation signal; the
\* signal, once triggered, stays triggered, and a unit that fails after it
\* still appends its error.
C3_CancelOnceOnError ==
    /\ [](\A u \in ApiUnits :
             (pc[u] \in {"exit", "done"} /\ Failed(u)) =>
                 /\ cancelled[1]
                 /\ Entries(u, errs[1] (+) snap (+) AllWaited) = 1)
    /\ [][cancelled[1] => cancelled'[1]]_vars

C3_Witness ==
    /\ cancelled[1]
    /\ BagCardinality(errs[1]) >= 2
    /\ \E u \in ApiUnits : pc[u] = "done" /\ Failed(u)
    /\ \E u \in ApiUnits : pc[u] = "cancel"

\* C4: with distinct document times, the sequence the collector hands to
\* the generate phase holds every document and is strictly descending in
\* time, whatever the order in which the load workers completed.
DistinctTimes ==
    \A i, j \in 1 .. Len(pages) : i # j => pages[i].time # pages[j].time

C4_FinalSequenceDescending ==
    (colPc = "done" /\ DistinctTimes) =>
        /\ {pages[i].doc : i \in 1 .. Len(pages)} = Docs
        /\ \A i, j \in 1 .. Len(pages) :
              i < j => pages[i].time > pages[j].time

C4_Witness ==
    /\ colPc = "done"
    /\ Len(pages) = NDocs
    /\ DistinctTimes

\* C5: a load worker whose document loaded ends its handoff either with its
\* page received by the collector exactly once and the return value nil, or
\* with no page emitted and the context's error returned; before it ends
\* it has emitted nothing.
Received(d) ==
    Cardinality({i \in 1 .. Len(pages) : pages[i].doc = d})
    + (IF colPage.doc = d THEN 1 ELSE 0)

C6_WaitListLength ==
    \A i \in 1 .. Len(waited) :
        (\E u \in PhaseUnits(i) : Failed(u)) =>
            /\ BagCardinality(waited[i]) >= 1
            /\ BagCardinality(waited[i]) <= Cardinality(PhaseUnits(i))

C6_Witness ==
    /\ Len(waited) = 1
    /\ BagCardinality(waited[1]) = NDocs
    /\ \E u \in LoadUnits : ret[u] = "ctx"
    /\ \E u \in LoadUnits : ret[u] \in LoadErrors

\* C7: (the claim as stated) a document whose worker failed, at load or in
\* the generate phase, has no destination file created by the run.
C7_NoFileForFailedDocument ==
    /\ (\E u \in LoadUnits : Failed(u)) =>
           \A p \in Paths : files[p] = "untouched"
    /\ \A u \in PageUnits :
           Failed(u) => files[PagePath(loaded[u[2]])] = "untouched"

\* C8: a destination file is created only once the body pass and the
\* template pass of every document have succeeded in memory: while any
\* page file has been created, every LoadPage call has returned its page
\* and every load worker has ended without error, so no body or template
\* pass can fail afterwards.
C8_CreateAfterRender ==
    (\E p \in Paths : files[p] # "untouched") =>
        \A d \in Docs :
            /\ loaded[d] # NoPage
            /\ pc[<<"load", d>>] = "done"
            /\ ret[<<"load", d>>] = "nil"

C8_Witness ==
    \E d \in Docs :
        /\ loaded[d] # NoPage
        /\ files[PagePath(loaded[d])] = "full"

\* C9: the task group does not interrupt a unit.  The generate-phase units
\* do not look at the context; with its signal fired, each of them is still
\* started, runs f to its end, is waited for, and its return value is
\* handled as usual: an entry in the list for an error, none for nil.
C9_UnitsRunToCompletion ==
    (mainPc = "returned" /\ eg = 2) =>
        \A u \in GenUnits :
            /\ pc[u] = "done"
            /\ ret[u] \in {"nil", "err", "stat"}
            /\ Entries(u, waited[2]) = IF Failed(u) THEN 1 ELSE 0

C9_Witness ==
    /\ mainPc = "returned"
    /\ eg = 2
    /\ CtxDone(2)
    /\ \E u \in PageUnits :
          /\ ret[u] = "nil"
          /\ files[PagePath(loaded[u[2]])] = "full"
    /\ \E u \in GenUnits : ret[u] = "err"

\* C10: Wait snapshots and clears: once Wait has taken its snapshot the
\* group's list is empty, a Wait that follows another with no unit started
\* in between returns the empty list, and no entry is returned by two
\* Wait calls.
C10_WaitClears ==
    /\ mainPc \in {"waitcancel", "returned"} => errs[1] = EmptyBag
    /\ \A i \in 2 .. Len(waited) :
          startedAt[i] = startedAt[i - 1] => waited[i] = EmptyBag
    /\ \A i, j \in 1 .. Len(waited) :
          i < j => BagToSet(waited[i]) \cap BagToSet(waited[j]) = {}

C10_Witness ==
    /\ Len(waited) = 2
    /\ BagCardinality(waited[1]) >= 1
    /\ startedAt[2] = startedAt[1]
    /\ waited[2] = EmptyBag

\* The number of entries of document d in main's variable pages.
Count(d) == Cardinality({i \in 1 .. Len(pages) : pages[i].doc = d})

\* C11: the sequence pages has a single writer.  It changes only in a step
\* of the collector's loop body, in which no load worker and not the main
\* goroutine moves; and whenever a reader of the sequence other than the
\* collector is at its read (main ranging over pages, the index unit or an
\* extras unit passing it to its template), the collector has signalled
\* completion, so no mutation can follow.
PagesReaderActive ==
    \/ mainPc = "gopages"
    \/ pc[IndexUnit] = "run"
    \/ \E u \in ExtraUnits : pc[u] = "run"

C11_SingleWriter ==
    /\ [](PagesReaderActive => colPc = "done")
    /\ [][pages' # pages =>
             /\ colPc = "insert"
             /\ colPc' = "recv"
             /\ pc' = pc
             /\ mainPc' = mainPc]_vars

C11_Witness ==
    /\ mainPc = "gopages"
    /\ pc[IndexUnit] = "run"
    /\ colPc = "done"
    /\ Len(pages) = NDocs

\* C12: the collector signals completion only once pagec is closed and
\* nothing received is left to insert; at that moment pages holds one entry
\* for every load worker that returned nil; and main creates the output
\* directory and the generate phase's group only after the signal.
C12_CollectorDrains ==
    /\ colPc = "done" =>
          /\ pagecClosed
          /\ colPage = NoPage
          /\ Len(pages) = Cardinality({u \in LoadUnits : ret[u] = "nil"})
    /\ (eg = 2 \/ outDir \/ \E u \in GenUnits : pc[u] # "idle") =>
          colPc = "done"

C12_Witness ==
    /\ colPc = "done"
    /\ mainPc = "pagesDone"
    /\ Len(pages) = NDocs
    /\ \A u \in LoadUnits : ret[u] = "nil"

\* C13: pages never holds two entries for one source document, and once
\* every load worker has returned nil and the collector has inserted what
\* it received, it holds exactly one entry for each document.
C13_OneResultPerDocument ==
    /\ \A d \in Docs : Count(d) <= 1
    /\ ((\A u \in LoadUnits : ret[u] = "nil") /\ colPc \in {"recv", "done"})
          => \A d \in Docs : Count(d) = 1

C13_Witness ==
    /\ exitCode = 0
    /\ ~interrupted
    /\ \A d \in Docs : Count(d) = 1

\* C16: when os.Stat of a page's destination fails with an error other than
\* non-existence, the page's worker returns that error and does not go on
\* to create the destination, which the run leaves untouched unless another
\* page has the same destination, and the error is in the group's list
\* once the worker is past its append, to be returned by Wait.
C16_StatErrorSurfaced ==
    \A d \in Docs :
        LET u == <<"page", d>>
        IN dstStat[d] = "error" =>
              /\ ret[u] = "stat"
              /\ pc[u] # "create"
              /\ (\A e \in Docs \ {d} :
                     PagePath(loaded[e]) # PagePath(loaded[d])) =>
                    files[PagePath(loaded[d])] = "untouched"
              /\ pc[u] \in {"cancel", "exit", "done"} =>
                    Entries(u, errs[2] (+) snap (+) AllWaited) = 1
              /\ (mainPc = "returned" /\ eg = 2) =>
                    CopiesIn(<<u, "stat">>, waited[2]) = 1

C16_Witness ==
    /\ mainPc = "returned"
    /\ eg = 2
    /\ \E d \in Docs :
          /\ dstStat[d] = "error"
          /\ CopiesIn(<<<<"page", d>>, "stat">>, waited[2]) = 1
    /\ \E d \in Docs : files[PagePath(loaded[d])] = "full"

\* C18: (the claim as stated) a load worker whose source file cannot be
\* opened or read ends normally: it does not panic, its error is in the
\* group's list once it is past its append, and its page is not sent.
C18_ReadErrorReturned ==
    \A u \in LoadUnits :
        /\ pc[u] # "panic"
        /\ ret[u] = "read" =>
              /\ Received(u[2]) = 0
              /\ pc[u] \in {"cancel", "exit", "done"} =>
                    Entries(u, errs[1] (+) snap (+) AllWaited) = 1

\* C19: the exit status is 0 only after both phases' Wait returned the
\* empty list; and when a phase's Wait has returned errors and main has
\* gone on from it, the process has exited with status 1, whatever the
\* other units of the phase did.
C19_ExitStatus ==
    /\ exitCode = 0 =>
          /\ Len(waited) = 2
          /\ waited[1] = EmptyBag
          /\ waited[2] = EmptyBag
    /\ ((\E i \in 1 .. Len(waited) : waited[i] # EmptyBag)
           /\ mainPc # "returned") =>
          /\ mainPc = "exited"
          /\ exitCode = 1

C19_Witness ==
    /\ exitCode = 1
    /\ Len(waited) = 2
    /\ BagCardinality(waited[2]) = 1
    /\ \E d \in Docs :
          /\ ret[<<"page", d>>] = "nil"
          /\ files[PagePath(loaded[d])] = "full"

\* C14: (the claim as stated, for the page worker of main) the page is
\* rebuilt when the destination does not exist, not rebuilt when the
\* destination's modification time is after the source's, and rebuilt when
\* it is equal to or before the source's.
C14_StalenessDecision ==
    (call.fn = "page" /\ call.out # "none" /\ call.dst.stat # "error") =>
        (call.out = "rebuild"
            <=> (call.dst.stat = "absent" \/ call.dst.mod <= call.src))

\* C15 (amended): processPage, finding the destination with a modification
\* time equal to the source's, rebuilds the page.
C15_EqualTimesRebuild ==
    (/\ call.fn = "processPage"
     /\ call.out # "none"
     /\ call.dst.stat = "exists"
     /\ call.dst.mod = call.src) => call.out = "rebuild"

C15_Witness ==
    /\ call.fn = "processPage"
    /\ call.dst.stat = "exists"
    /\ call.dst.mod = call.src
    /\ call.out = "rebuild"

\* C15 (as stated): with equal modification times there is no rebuild.
C15_EqualTimesSkip ==
    (/\ call.fn = "processPage"
     /\ call.out # "none"
     /\ call.dst.stat = "exists"
     /\ call.dst.mod = call.src) => call.out = "skip"

\* The documents listed in the index this run has written: genIndex
\* executes the index template over main's variable pages.
IndexPages ==
    IF files[IndexPath] = "full"
    THEN {pages[i].doc : i \in 1 .. Len(pages)}
    ELSE {}

\* C17: (the claim as stated) a document whose worker found the destination
\* in place and wrote nothing has no entry in pages and is not listed in
\* the index the run generates.
C17_SkippedNotIndexed ==
    \A d \in Docs :
        (dstStat[d] = "exists" /\ files[IndexPath] = "full") =>
            /\ Count(d) = 0
            /\ d \notin IndexPages

\* Every comment of an html tree, wherever it is.
RECURSIVE AllComments(_)
AllComments(node) ==
    IF node.type = "comment" THEN {node.data}
    ELSE UNION {AllComments(node.kids[i]) : i \in 1 .. Len(node.kids)}

\* The document has no embedded metadata block: no HTMLBlock of it holds
\* a comment that begins with "meta".
NoMetaBlock(tree) ==
    \A i \in 1 .. Len(tree) :
        tree[i].type = "HTMLBlock" =>
            \A c \in AllComments(tree[i].html) :
                Len(c) < 4 \/ SubSeq(c, 1, 4) # MetaPrefix

\* C20: for a document with no embedded metadata block, getMeta returns a
\* map that is empty and not nil, and a nil error; the tree is as it was.
C20_NoBlockEmptyMeta ==
    (/\ call.fn = "getMeta"
     /\ call.status = "returned"
     /\ NoMetaBlock(call.node)) =>
        /\ call.meta = EmptyMap
        /\ call.werr = "nil"
        /\ call.tree = call.node

C20_Witness ==
    /\ call.fn = "getMeta"
    /\ call.status = "returned"
    /\ Len(call.node) = MaxBlocks
    /\ NoMetaBlock(call.node)
    /\ \E i \in 1 .. Len(call.node) :
          /\ call.node[i].type = "HTMLBlock"
          /\ AllComments(call.node[i].html) # {}
    /\ call.meta = EmptyMap

----------------------------------------------------------------------------
\* The default back-fill of LoadPage (pageinfo.go 21-32, 67-73), for the
\* files main hands to it (part_002 167-170).

\* main ranges over the directory listing; a file is a name and a
\* modification time, and its source carries some metadata.
FillCall ==
    /\ call = NoCall
    /\ \E name \in Names, t \in 1 .. MaxTime, src \in SourceMetas :
          call' = [fn |-> "LoadPage",
                   file |-> [name |-> name, modTime |-> t],
                   src |-> src, meta |-> src, todo |-> DefaultKeys,
                   status |-> "listed"]
    /\ UNCHANGED progVars

\* if strings.ToLower(filepath.Ext(file.Name())) != ".md" { continue }
FillSkip ==
    /\ call.fn = "LoadPage"
    /\ call.status = "listed"
    /\ ~IsMarkdown(call.file.name)
    /\ call' = NoCall
    /\ UNCHANGED progVars

\* LoadPage up to the return of getMeta
FillGetMeta ==
    /\ call.fn = "LoadPage"
    /\ call.status = "listed"
    /\ IsMarkdown(call.file.name)
    /\ call' = [call EXCEPT !.status = "fill"]
    /\ UNCHANGED progVars

\* One iteration of the range over defaultMeta; the order of a range over
\* a map is not specified.
FillKey ==
    /\ call.fn = "LoadPage"
    /\ call.status = "fill"
    /\ \E k \in call.todo :
          call' = [call EXCEPT !.meta = BackFill(@, k, call.file),
                               !.todo = @ \ {k}]
    /\ UNCHANGED progVars

\* page := &PageInfo{Meta: meta}
FillPage ==
    /\ call.fn = "LoadPage"
    /\ call.status = "fill"
    /\ call.todo = {}
    /\ call' = [call EXCEPT !.status = "page"]
    /\ UNCHANGED progVars

\* The page reaches the collector, which compares its time with the
\* time of a page it holds:
\* page.Meta["time"].(time.Time).After(pages[i].Meta["time"].(time.Time))
FillCompare ==
    /\ call.fn = "LoadPage"
    /\ call.status = "page"
    /\ call' = [call EXCEPT !.status =
                   IF AssertTime(call.meta["time"]) = "ok" THEN "compared"
                   ELSE "panic"]
    /\ UNCHANGED progVars

FillReturn ==
    /\ call.fn = "LoadPage"
    /\ call.status \in {"compared", "panic"}
    /\ call' = NoCall
    /\ UNCHANGED progVars

NextFill ==
    \/ FillCall
    \/ FillSkip
    \/ FillGetMeta
    \/ FillKey
    \/ FillPage
    \/ FillCompare
    \/ FillReturn

SpecFill == Init /\ [][NextFill]_vars

----------------------------------------------------------------------------
\* Render of package markdown and its errWriter (part_009 11-43; the same
\* code as RenderMarkdown in markdown.go 9-38).

\* The errors the underlying writer may return, and the results of one
\* Write of it on DataLen bytes: all bytes and nil, or fewer and an error.
WriteErrors == {"e1", "e2"}
DataLen == 2
UnderlyingResults ==
    {[n |-> DataLen, err |-> "nil"]}
    \cup {[n |-> n, err |-> err] : n \in 0 .. DataLen - 1, err \in WriteErrors}

\* errWriter.Write, on a writer ew whose underlying Write would return
\* res: the new ew, with what the call has returned (last), how many
\* writes have reached the underlying writer (reached) and whether one
\* did after an error of it (late).
WriteThrough(ew, res) ==
    [ew EXCEPT !.err = res.err,
               !.last = res,
               !.reached = @ + 1,
               !.late = @ \/ ew.first # "nil",
               !.first = IF @ = "nil" THEN res.err ELSE @]
Write(ew, res) ==
    IF ew.err # "nil"
    THEN [ew EXCEPT !.last = [n |-> 0, err |-> ew.err]]
    ELSE [ew EXCEPT !.err = res.err,
                    !.last = res,
                    !.reached = @ + 1,
                    !.late = @ \/ ew.first # "nil",
                    !.first = IF @ = "nil" THEN res.err ELSE @]

\* The calls Render makes on the renderer for a tree of n nodes:
\* RenderHeader, RenderNode entering and leaving each node, RenderFooter.
RenderCalls(n) == 2 * n + 2

\* Render: ew := errWriter{w: w}
WriterCall ==
    /\ call = NoCall
    /\ \E n \in 0 .. MaxNodes :
          call' = [fn |-> "Render", nodes |-> n, at |-> 1,
                   ew |-> [err |-> "nil", first |-> "nil", reached |-> 0,
                           late |-> FALSE,
                           last |-> [n |-> 0, err |-> "nil"]],
                   afterErr |-> FALSE, result |-> "none",
                   status |-> "render"]
    /\ UNCHANGED progVars

\* One call of the renderer (RenderHeader, RenderNode or RenderFooter)
\* that writes to &ew; the renderer goes on whatever Write returns.
WriterWrite ==
    /\ call.fn = "Render"
    /\ call.status = "render"
    /\ call.at <= RenderCalls(call.nodes)
    /\ \E res \in UnderlyingResults :
          call' = [call EXCEPT !.ew = Write(@, res),
                               !.afterErr = call.ew.err # "nil",
                               !.at = @ + 1]
    /\ UNCHANGED progVars

\* One call of the renderer that writes nothing.
WriterNoWrite ==
    /\ call.fn = "Render"
    /\ call.status = "render"
    /\ call.at <= RenderCalls(call.nodes)
    /\ call' = [call EXCEPT !.at = @ + 1]
    /\ UNCHANGED progVars

\* return ew.err
WriterReturn ==
    /\ call.fn = "Render"
    /\ call.status = "render"
    /\ call.at > RenderCalls(call.nodes)
    /\ call' = [call EXCEPT !.result = call.ew.err, !.status = "returned"]
    /\ UNCHANGED progVars

WriterDone ==
    /\ call.fn = "Render"
    /\ call.status = "returned"
    /\ call' = NoCall
    /\ UNCHANGED progVars

NextWriter ==
    \/ WriterCall
    \/ WriterWrite
    \/ WriterNoWrite
    \/ WriterReturn
    \/ WriterDone

SpecWriter == Init /\ [][NextWriter]_vars

----------------------------------------------------------------------------
\* The two passes over a document: PageInfo.render (pageinfo.go 100-124)
\* and PageInfo.Execute (pageinfo.go 157-167), both with text/template.

\* The body pass writes HTML; its text is a string over these tokens: a
\* "<" of the markup, the default delimiters "{{" and "}}", delimiters a
\* document may choose, and a "p" that is a pipeline inside an action and
\* plain text outside.
BodyTokens == {"<", "{{", "}}", "[[", "]]", "p"}
Bodies == SeqsUpTo(BodyTokens, MaxBody)

\* delimLeft, delimRight: a string of the metadata, "" if there is none.
LeftChoices == {"", "[["}
RightChoices == {"", "]]"}

\* Template.Delims: an empty string stands for the default.
LeftDelim(delimLeft) == IF delimLeft = "" THEN "{{" ELSE delimLeft
RightDelim(delimRight) == IF delimRight = "" THEN "}}" ELSE delimRight

\* Parse and Execute of text/template on a text: text outside actions is
\* copied; an action holding the pipeline "p" is replaced by its value
\* "v"; any other action, or one that is not closed, is an error and
\* there is no output.
RECURSIVE LexText(_, _, _)
RECURSIVE LexAction(_, _, _, _)
LexText(text, l, r) ==
    IF text = <<>> THEN [err |-> "nil", out |-> <<>>]
    ELSE IF Head(text) = l THEN LexAction(Tail(text), l, r, <<>>)
    ELSE LET rest == LexText(Tail(text), l, r)
         IN IF rest.err # "nil" THEN rest
            ELSE [err |-> "nil", out |-> <<Head(text)>> \o rest.out]
LexAction(text, l, r, cmd) ==
    IF text = <<>> THEN [err |-> "template", out |-> <<>>]
    ELSE IF Head(text) = r
    THEN IF cmd # <<"p">> THEN [err |-> "template", out |-> <<>>]
         ELSE LET rest == LexText(Tail(text), l, r)
              IN IF rest.err # "nil" THEN rest
                 ELSE [err |-> "nil", out |-> <<"v">> \o rest.out]
    ELSE IF Head(text) = l THEN [err |-> "template", out |-> <<>>]
    ELSE LexAction(Tail(text), l, r, Append(cmd, Head(text)))

\* render: Delims(delimLeft, delimRight).Parse(buf.String()); Execute
TemplatePass(body, delimLeft, delimRight) ==
    LexText(body, LeftDelim(delimLeft), RightDelim(delimRight))

\* What the action {{.Page.Content}} of a page template prints for a
\* string: text/template prints it as it is (html/template would escape).
RECURSIVE PrintEscaped(_)
PrintEscaped(content) ==
    IF content = <<>> THEN <<>>
    ELSE (IF Head(content) = "<" THEN <<"&lt;">> ELSE <<Head(content)>>)
         \o PrintEscaped(Tail(content))
PrintString(content) == content

\* The page template: text, the action {{.Page.Content}}, text.
PageTemplate == <<"head", "Content", "foot">>

\* PageInfo.Execute: tmpl.Execute(w, {"Page": page, "Data": data})
RECURSIVE ExecuteTemplate(_, _)
ExecuteTemplate(tmpl, content) ==
    IF tmpl = <<>> THEN <<>>
    ELSE (IF Head(tmpl) = "Content" THEN PrintString(content)
          ELSE <<Head(tmpl)>>)
         \o ExecuteTemplate(Tail(tmpl), content)

\* render, after markdown.Render has written body into buf
RoundCall ==
    /\ call = NoCall
    /\ \E body \in Bodies, dl \in LeftChoices, dr \in RightChoices :
          call' = [fn |-> "render", body |-> body, delimLeft |-> dl,
                   delimRight |-> dr, content |-> <<>>, err |-> "nil",
                   out |-> <<>>, status |-> "markdown"]
    /\ UNCHANGED progVars

\* render: template Parse, buf.Reset(), Execute; LoadPage:
\* page.Content = mdbuf.String()
RoundTemplate ==
    /\ call.fn = "render"
    /\ call.status = "markdown"
    /\ LET res == TemplatePass(call.body, call.delimLeft, call.delimRight)
       IN call' = [call EXCEPT !.err = res.err,
                               !.content = res.out,
                               !.status = IF res.err # "nil" THEN "failed"
                                          ELSE "loaded"]
    /\ UNCHANGED progVars

\* PageInfo.Execute
RoundExecute ==
    /\ call.fn = "render"
    /\ call.status = "loaded"
    /\ call' = [call EXCEPT !.out = ExecuteTemplate(PageTemplate,
                                                    call.content),
                            !.status = "executed"]
    /\ UNCHANGED progVars

RoundReturn ==
    /\ call.fn = "render"
    /\ call.status \in {"failed", "executed"}
    /\ call' = NoCall
    /\ UNCHANGED progVars

NextRound ==
    \/ RoundCall
    \/ RoundTemplate
    \/ RoundExecute
    \/ RoundReturn

SpecRound == Init /\ [][NextRound]_vars

----------------------------------------------------------------------------
\* PageInfo.getMeta(keys ...string) (pageinfo.go 126-144), the nested
\* lookup render uses for template.delims.left and template.delims.right.

\* The values of a metadata mapping as interface{}: a string, nil, or a
\* map[string]interface{}.
StringV == [kind |-> "string", m |-> <<>>]
NilV == [kind |-> "nil", m |-> <<>>]
MapV(m) == [kind |-> "map", m |-> m]

\* render looks up three keys deep: "template", "delims", "left".
DelimDepth == 3
MetaKeys == {"k1", "k2"}

\* The mappings nested up to depth d.
RECURSIVE MetaMaps(_)
MetaMaps(d) ==
    IF d = 0 THEN {}
    ELSE UNION {[S -> {StringV} \cup {MapV(m) : m \in MetaMaps(d - 1)}] :
                S \in SUBSET MetaKeys}

KeySeqs == SeqsUpTo(MetaKeys, MaxKeys) \ {<<>>}

\* meta[k] of a map[string]interface{}: nil for a key it does not hold.
Index(meta, k) == IF k \in DOMAIN meta THEN meta[k] ELSE NilV

\* The earlier revision (part_010 109-127): it indexes page.Meta at every
\* level and ends with meta[keys[1]] on a one-key slice, which panics.
RECURSIVE GetMetaEarlierFrom(_, _, _)
GetMetaEarlierFrom(pageMeta, meta, keys) ==
    IF Len(keys) > 1
    THEN IF Index(pageMeta, keys[1]).kind # "map"
         THEN [panic |-> FALSE, val |-> NilV]
         ELSE GetMetaEarlierFrom(pageMeta, Index(pageMeta, keys[1]).m,
                                 Tail(keys))
    ELSE [panic |-> TRUE, val |-> NilV]
GetMetaEarlier(pageMeta, keys) ==
    IF Len(keys) = 0 THEN [panic |-> TRUE, val |-> NilV]
    ELSE GetMetaEarlierFrom(pageMeta, pageMeta, keys)

\* for len(keys) > 1 { next, ok := meta[keys[0]].(map[string]interface{});
\* if !ok { return nil }; keys = keys[1:]; meta = next };
\* return meta[keys[0]]
RECURSIVE GetMetaFrom(_, _)
GetMetaFrom(meta, keys) ==
    IF Len(keys) > 1
    THEN IF Index(meta, keys[1]).kind # "map"
         THEN [panic |-> FALSE, val |-> NilV]
         ELSE GetMetaFrom(Index(meta, keys[1]).m, Tail(keys))
    ELSE [panic |-> FALSE, val |-> Index(meta, keys[1])]

\* PageInfo.getMeta
GetMeta(pageMeta, keys) ==
    IF Len(keys) = 0 THEN [panic |-> TRUE, val |-> NilV]
    ELSE GetMetaFrom(pageMeta, keys)

\* render: page.getMeta(...)
LookupCall ==
    /\ call = NoCall
    /\ \E meta \in MetaMaps(DelimDepth), keys \in KeySeqs :
          call' = [fn |-> "PageInfo.getMeta", meta |-> meta, keys |-> keys,
                   res |-> [panic |-> FALSE, val |-> NilV],
                   delim |-> "", status |-> "called"]
    /\ UNCHANGED progVars

LookupRun ==
    /\ call.fn = "PageInfo.getMeta"
    /\ call.status = "called"
    /\ LET res == GetMeta(call.meta, call.keys)
       IN call' = [call EXCEPT !.res = res,
                               !.status = IF res.panic THEN "panic"
                                          ELSE "returned"]
    /\ UNCHANGED progVars

\* render: delimLeft, _ := page.getMeta(...).(string); a value that is
\* not a string gives "", the default delimiter of Delims.
LookupDelim ==
    /\ call.fn = "PageInfo.getMeta"
    /\ call.status = "returned"
    /\ call' = [call EXCEPT !.delim = IF call.res.val.kind = "string"
                                      THEN "string" ELSE "",
                            !.status = "delim"]
    /\ UNCHANGED progVars

LookupDone ==
    /\ call.fn = "PageInfo.getMeta"
    /\ call.status \in {"delim", "panic"}
    /\ call' = NoCall
    /\ UNCHANGED progVars

NextLookup ==
    \/ LookupCall
    \/ LookupRun
    \/ LookupDelim
    \/ LookupDone

SpecLookup == Init /\ [][NextLookup]_vars

----------------------------------------------------------------------------
\* Package bufpool (internal/cli/flags.go 243-266) under the load workers:
\* LoadPage gets one buffer in readFile and one for the markdown, and puts
\* both back by deferred calls (pageinfo.go 49-95).

\* The workers that use the pool at the same time, and the buffers there
\* can be: each worker holds two at most.
PoolWorkers == 1 .. NDocs
Bufs == 1 .. 2 * NDocs

\* bufPool.Get(): an item of the pool, taken out of it, or the value of
\* New when the pool gives none (a sync.Pool may drop its items at any
\* time).  b is the buffer returned: new(bytes.Buffer) is empty.
PoolGet(c, w, b) ==
    [c EXCEPT !.pool = @ \ {b},
              !.len[b] = IF b \in c.pool THEN @ ELSE 0,
              !.held[w] = Append(@, b),
              !.got = [w |-> w, buf |-> b,
                       len |-> IF b \in c.pool THEN c.len[b] ELSE 0]]

\* Put: buf.Reset(); bufPool.Put(buf)
PoolPutNoReset(c, w, b) ==
    [c EXCEPT !.pool = @ \cup {b},
              !.held[w] = SubSeq(@, 1, Len(@) - 1)]
PoolPut(c, w, b) ==
    [c EXCEPT !.len[b] = 0,
              !.pool = @ \cup {b},
              !.held[w] = SubSeq(@, 1, Len(@) - 1)]

\* The buffers some worker holds.
Held(c) == UNION {{c.held[w][i] : i \in 1 .. Len(c.held[w])} :
                  w \in PoolWorkers}

\* The load workers start.
PoolStart ==
    /\ call = NoCall
    /\ call' = [fn |-> "bufpool", pool |-> {},
                len |-> [b \in Bufs |-> 0],
                held |-> [w \in PoolWorkers |-> <<>>],
                wpc |-> [w \in PoolWorkers |-> "start"],
                got |-> [w |-> 0, buf |-> 0, len |-> 0]]
    /\ UNCHANGED progVars

\* readFile: buf := bufpool.Get(); LoadPage: mdbuf := bufpool.Get()
PoolWorkerGet(w) ==
    /\ call.fn = "bufpool"
    /\ call.wpc[w] \in {"start", "parsed"}
    /\ \E b \in Bufs \ Held(call) :
          call' = [PoolGet(call, w, b) EXCEPT
                      !.wpc[w] = IF call.wpc[w] = "start" THEN "copy"
                                 ELSE "render"]
    /\ UNCHANGED progVars

\* readFile: io.Copy(buf, file); LoadPage: page.render(mdbuf, ...): the
\* worker writes into the buffer it got last.
PoolWorkerWrite(w) ==
    /\ call.fn = "bufpool"
    /\ call.wpc[w] \in {"copy", "render"}
    /\ \E n \in 0 .. DataLen :
          call' = [call EXCEPT
                      !.len[call.held[w][Len(call.held[w])]] = n,
                      !.wpc[w] = IF call.wpc[w] = "copy" THEN "parsed"
                                 ELSE "return"]
    /\ UNCHANGED progVars

\* LoadPage returns: defer bufpool.Put(mdbuf), then defer bufpool.Put(buf)
PoolWorkerPut(w) ==
    /\ call.fn = "bufpool"
    /\ call.wpc[w] = "return"
    /\ call' = [PoolPut(call, w, call.held[w][Len(call.held[w])]) EXCEPT
                   !.wpc[w] = IF Len(call.held[w]) = 1 THEN "start"
                              ELSE "return"]
    /\ UNCHANGED progVars

\* The garbage collector empties part of the sync.Pool.
PoolDrop ==
    /\ call.fn = "bufpool"
    /\ \E b \in call.pool :
          call' = [call EXCEPT !.pool = @ \ {b}]
    /\ UNCHANGED progVars

NextPool ==
    \/ PoolStart
    \/ \E w \in PoolWorkers : PoolWorkerGet(w)
    \/ \E w \in PoolWorkers : PoolWorkerWrite(w)
    \/ \E w \in PoolWorkers : PoolWorkerPut(w)
    \/ PoolDrop

SpecPool == Init /\ [][NextPool]_vars

----------------------------------------------------------------------------
\* The collector of main (part_002 152-164) on its own, receiving pages
\* with any times, equal ones included.

\* go func() { defer close(pagesDone); for page := range pagec { ... } }()
SortStart ==
    /\ call = NoCall
    /\ call' = [fn |-> "collector", pages |-> <<>>, received |-> <<>>]
    /\ UNCHANGED progVars

\* One turn of the loop: a page arrives (doc is its number in the order of
\* arrival) and is inserted.
SortInsert ==
    /\ call.fn = "collector"
    /\ Len(call.received) < MaxPages
    /\ \E t \in 1 .. MaxTime :
          LET page == [doc |-> Len(call.received) + 1, time |-> t]
          IN call' = [call EXCEPT !.pages = Insert(@, page),
                                  !.received = Append(@, page)]
    /\ UNCHANGED progVars

\* pagec is closed: the range ends.
SortEnd ==
    /\ call.fn = "collector"
    /\ call' = NoCall
    /\ UNCHANGED progVars

NextSort ==
    \/ SortStart
    \/ SortInsert
    \/ SortEnd

SpecSort == Init /\ [][NextSort]_vars

----------------------------------------------------------------------------
\* An HTMLBlock that getMeta takes for a metadata block: its first comment
\* begins with "meta".
MetaShaped(block) ==
    /\ block.type = "HTMLBlock"
    /\ FindComment(block.html).some
    /\ Len(FindComment(block.html).data) >= 4
    /\ SubSeq(FindComment(block.html).data, 1, 4) = MetaPrefix

MetaShapedAt(tree) == {i \in 1 .. Len(tree) : MetaShaped(tree[i])}

\* The YAML keys of a metadata block.
BlockKeys(block) ==
    LET data == FindComment(block.html).data
    IN {data[i] : i \in 5 .. Len(data)} \ {"bad"}

\* C21: for a document with two metadata-shaped blocks, getMeta returns
\* keys of the first one only: all of them when the first block decodes
\* (and then no error), none when it does not.
C21_FirstBlockOnly ==
    (/\ call.fn = "getMeta"
     /\ call.status = "returned"
     /\ Cardinality(MetaShapedAt(call.node)) >= 2) =>
        LET first == CHOOSE i \in MetaShapedAt(call.node) :
                        \A j \in MetaShapedAt(call.node) : i <= j
        IN /\ call.meta.keys \subseteq BlockKeys(call.node[first])
           /\ call.werr = "nil" =>
                 call.meta.keys = BlockKeys(call.node[first])

C21_Witness ==
    /\ call.fn = "getMeta"
    /\ call.status = "returned"
    /\ call.prev = NoCall
    /\ Cardinality(MetaShapedAt(call.node)) = 2
    /\ BlockKeys(call.node[1]) = {"k1"}
    /\ BlockKeys(call.node[2]) = {"k2"}
    /\ call.meta.keys = {"k1"}

\* C22: getMeta changes the tree only when unlink is true and the decode
\* has succeeded, and then by removing the decoded block; when the decode
\* fails it returns the error with the tree as it was, and LoadPage returns
\* no page.
C22_DetachAfterDecode ==
    (call.fn = "getMeta" /\ call.status \in {"returned", "loadpage"}) =>
        /\ call.tree # call.node =>
              /\ call.unlink
              /\ call.werr = "nil"
              /\ Len(call.tree) = Len(call.node) - 1
              /\ Cardinality(MetaShapedAt(call.tree))
                    = Cardinality(MetaShapedAt(call.node)) - 1
        /\ call.werr # "nil" =>
              /\ call.tree = call.node
              /\ call.status = "loadpage" => call.page = "nil"

C22_Witness ==
    /\ call.fn = "getMeta"
    /\ call.status = "loadpage"
    /\ call.unlink
    /\ call.werr = "unmarshal"
    /\ call.tree = call.node
    /\ call.page = "nil"

\* C23: getMeta with unlink leaves a tree without a metadata block as it
\* is; and called with unlink a second time, on the tree from which the
\* first call has removed the only metadata block, it changes nothing and
\* returns the empty map and no error.
C23_DetachIdempotent ==
    (call.fn = "getMeta" /\ call.status = "returned" /\ call.unlink) =>
        /\ MetaShapedAt(call.node) = {} => call.tree = call.node
        /\ (/\ call.prev # NoCall
            /\ call.prev.unlink
            /\ call.prev.werr = "nil"
            /\ Cardinality(MetaShapedAt(call.prev.node)) = 1) =>
              /\ call.tree = call.node
              /\ call.meta = EmptyMap
              /\ call.werr = "nil"

C23_Witness ==
    /\ call.fn = "getMeta"
    /\ call.status = "returned"
    /\ call.unlink
    /\ call.prev # NoCall
    /\ call.prev.unlink
    /\ Cardinality(MetaShapedAt(call.prev.node)) = 1
    /\ Len(call.prev.node) = MaxBlocks
    /\ call.meta = EmptyMap
    /\ call.tree = call.node

\* C24: after the back-fill a loaded document has a "title" that is not
\* empty and a "time", also when its source carried neither, and a key the
\* source carried keeps the source's value.
C24_BackFilled ==
    (call.fn = "LoadPage" /\ call.status = "page") =>
        /\ DefaultKeys \subseteq DOMAIN call.meta
        /\ call.meta["title"].s # <<>>
        /\ \A k \in DOMAIN call.src : call.meta[k] = call.src[k]

\* C25: once the underlying writer has returned an error, no write
\* reaches it any more, every later Write of the errWriter returns 0 and
\* that error, and Render returns it after all calls of the renderer have
\* been made; Render returns nil if no write failed.
C25_StickyError ==
    call.fn = "Render" =>
        /\ ~call.ew.late
        /\ call.ew.err = call.ew.first
        /\ call.afterErr =>
              call.ew.last = [n |-> 0, err |-> call.ew.first]
        /\ call.status = "returned" =>
              /\ call.at = RenderCalls(call.nodes) + 1
              /\ call.result = call.ew.first

C25_Witness ==
    /\ call.fn = "Render"
    /\ call.status = "returned"
    /\ call.nodes = MaxNodes
    /\ call.ew.reached = 2
    /\ call.afterErr
    /\ call.result = "e2"
    /\ call.ew.last = [n |-> 0, err |-> "e2"]

\* A body without a directive: the left delimiter in force is not in it.
DirectiveFree(body, delimLeft) ==
    \A i \in 1 .. Len(body) : body[i] # LeftDelim(delimLeft)

\* C26: for a body without directives the template pass does not fail and
\* the page written is the page template with the output of the body pass
\* in the place of its Content action, token for token.
C26_RoundTrip ==
    (call.fn = "render" /\ DirectiveFree(call.body, call.delimLeft)) =>
        /\ call.status # "failed"
        /\ call.status \in {"loaded", "executed"} =>
              call.content = call.body
        /\ call.status = "executed" =>
              call.out = <<"head">> \o call.body \o <<"foot">>

C26_Witness ==
    /\ call.fn = "render"
    /\ call.status = "executed"
    /\ call.delimLeft = "[["
    /\ call.body = <<"<", "{{", "p">>
    /\ call.out = <<"head", "<", "{{", "p", "foot">>

\* The value found by descending from a value key by key: the value itself
\* for no key, nil below a value that is not a mapping or does not hold
\* the key.
RECURSIVE Descend(_, _)
Descend(value, keys) ==
    IF keys = <<>> THEN value
    ELSE IF value.kind # "map" \/ Head(keys) \notin DOMAIN value.m THEN NilV
    ELSE Descend(value.m[Head(keys)], Tail(keys))

\* C28: PageInfo.getMeta with one key or more does not panic and returns
\* the value found by descending through the nested mappings, nil when a
\* key on the way is missing or holds no mapping; render then takes the
\* default delimiter unless the value is a string.
C28_NestedLookup ==
    call.fn = "PageInfo.getMeta" =>
        /\ call.status # "panic"
        /\ call.status \in {"returned", "delim"} =>
              /\ call.res.val = Descend(MapV(call.meta), call.keys)
              /\ (\E i \in 1 .. Len(call.keys) - 1 :
                     Descend(MapV(call.meta),
                             SubSeq(call.keys, 1, i)).kind # "map") =>
                    call.res.val = NilV
        /\ call.status = "delim" =>
              (call.delim = "") = (call.res.val.kind # "string")

C28_Witness ==
    /\ call.fn = "PageInfo.getMeta"
    /\ call.status = "delim"
    /\ Len(call.keys) = DelimDepth
    /\ call.res.val = StringV
    /\ call.delim = "string"

\* C30: the context of the generate phase's group is done only after a
\* unit of that group has failed, after the group's own Wait has returned
\* (both call the group's cancel), or after an interrupt; in particular
\* it is not done when the group has just been made.
C30_GenerateContextFresh ==
    (eg = 2 /\ ~cancelled[2] /\ ~interrupted) => ~CtxDone(2)

\* C27: with a.md (no metadata) and b.md (title "B", time its
\* modification time, the later one), a.md's page has the title "a" and
\* the time of its file, b.md's page keeps its own title and time, B
\* stands before A in pages whichever arrived first, and an index that
\* has been written lists both.
C27_IndexOrder ==
    /\ \A i \in 1 .. Len(pages) :
          /\ (pages[i].doc = 1 /\ pages[i].src = NoMeta) =>
                /\ pages[i].title = <<"a">>
                /\ pages[i].time = ModTime(1)
          /\ pages[i].doc = 2 =>
                /\ pages[i].title = <<"B">>
                /\ pages[i].time = ModTime(2)
    /\ \A i, j \in 1 .. Len(pages) :
          (pages[i].doc = 2 /\ pages[j].doc = 1) => i < j
    /\ files[IndexPath] = "full" =>
          \E i, j \in 1 .. Len(pages) :
             pages[i].doc = 2 /\ pages[j].doc = 1

C27_Witness ==
    /\ files[IndexPath] = "full"
    /\ Len(pages) = NDocs
    /\ \E i \in 1 .. Len(pages) - 1 :
          /\ pages[i].title = <<"B">>
          /\ pages[i + 1].title = <<"a">>
          /\ pages[i + 1].src = NoMeta
          /\ pages[i + 1].time = ModTime(1)

\* The path a unit of the generate phase creates, and the units that are
\* at their os.Create.
Dest(u) ==
    IF u = IndexUnit THEN IndexPath
    ELSE IF u \in PageUnits THEN PagePath(loaded[u[2]])
    ELSE ExtraPath(u[2])

Creating(u) ==
    \/ u \in PageUnits /\ pc[u] = "create"
    \/ u \in ExtraUnits \cup {IndexUnit} /\ pc[u] = "run"

\* C29: no two units of the generate phase are at the creation of the
\* same destination path.
C29_DistinctDestinations ==
    \A u, v \in GenUnits :
        (u # v /\ Creating(u) /\ Creating(v)) => Dest(u) # Dest(v)

\* C31: the buffer the last Get returned had length zero when it was
\* returned, every buffer in the pool has length zero, and no buffer is
\* held twice, by two workers or by one, or held while it is in the pool.
C31_GetReturnsEmpty ==
    call.fn = "bufpool" =>
        /\ call.got.len = 0
        /\ \A b \in call.pool : call.len[b] = 0
        /\ \A w, v \in PoolWorkers :
              \A i \in 1 .. Len(call.held[w]), j \in 1 .. Len(call.held[v]) :
                 (w # v \/ i # j) => call.held[w][i] # call.held[v][j]
        /\ Held(call) \cap call.pool = {}

C31_Witness ==
    /\ call.fn = "bufpool"
    /\ call.got.buf = 1
    /\ call.got.w = 2
    /\ call.held[2] = <<1>>
    /\ Len(call.held[1]) = 2
    /\ \A i \in 1 .. 2 : call.len[call.held[1][i]] > 0
    /\ call.wpc[1] = "return"

C34_SortedAfterEachInsert ==
    call.fn = "collector" =>
        /\ \A i, j \in 1 .. Len(call.pages) :
              i < j =>
                 /\ call.pages[i].time >= call.pages[j].time
                 /\ call.pages[i].time = call.pages[j].time =>
                       call.pages[i].doc < call.pages[j].doc
        /\ Len(call.pages) = Len(call.received)
        /\ \A k \in 1 .. Len(call.received) :
              \E i \in 1 .. Len(call.pages) :
                 call.pages[i] = call.received[k]

C34_Witness ==
    /\ call.fn = "collector"
    /\ Len(call.pages) = MaxPages
    /\ call.received[1].time = call.received[MaxPages].time
    /\ call.received[2].time > call.received[1].time
    /\ call.pages[1] = call.received[2]
    /\ call.pages[MaxPages] = call.received[MaxPages]

\* C35: the page LoadPage returns has a time.Time under "time", whatever
\* metadata the source carries, and the collector's comparison of its time
\* does not panic.
C35_TimeIsTimestamp ==
    call.fn = "LoadPage" =>
        /\ call.status = "page" => call.meta["time"].kind = "time"
        /\ call.status # "panic"

\* C36: a page worker that has found its destination in place returns nil
\* and never goes on to os.Create; the file, if no unit of this run has
\* made it, stays untouched unless another page has the same destination.
C36_ExistingUntouched ==
    \A d \in Docs :
        LET u == <<"page", d>>
        IN dstStat[d] = "exists" =>
              /\ ret[u] = "nil"
              /\ pc[u] \notin {"run", "create"}
              /\ (\A e \in Docs \ {d} :
                     PagePath(loaded[e]) # PagePath(loaded[d])) =>
                    files[PagePath(loaded[d])] = "untouched"

C36_Witness ==
    /\ mainPc = "exited"
    /\ exitCode = 0
    /\ dstStat[1] = "exists"
    /\ dstStat[2] = "absent"
    /\ files[PagePath(loaded[1])] = "untouched"
    /\ files[PagePath(loaded[2])] = "full"

\* C37 (amended): while the Wait of a group has not returned, if the
\* group's cancel has been called (by a unit: Wait calls it on return), an
\* error is recorded: in me.errs, or, once Wait has taken the list and
\* set me.errs to nil, in the list Wait is about to return, and by then
\* every unit of the group has ended.
C37_ErrorBeforeCancel ==
    \A g \in Groups :
        (cancelled[g] /\ Len(waited) < g) =>
            IF mainPc = "waitcancel"
            THEN /\ snap # EmptyBag
                 /\ \A u \in Units \ ApiUnits :
                       GroupOf(u) = g => pc[u] \in {"idle", "done"}
            ELSE errs[g] # EmptyBag

C37_Witness ==
    /\ cancelled[1]
    /\ Len(waited) = 0
    /\ BagCardinality(errs[1]) = 1
    /\ \E u \in LoadUnits : pc[u] = "select"
    /\ \E u \in LoadUnits : pc[u] = "exit"

\* C37 (as stated): while Wait has not returned, if the group's cancel has
\* been called, me.errs is not empty.
C37_ErrsNonEmptyUntilReturn ==
    \A g \in Groups :
        (cancelled[g] /\ Len(waited) < g) => errs[g] # EmptyBag



\* C38: once the load phase's Wait has returned a list with at least one
\* error, the run creates no output: the output directory is never made,
\* no page, index or extra file is created or written, no unit of the
\* generate phase is started, and the process ends with status 1, also
\* when other documents were loaded.
C38_NoOutputAfterLoadError ==
    (Len(waited) >= 1 /\ BagCardinality(waited[1]) >= 1) =>
        /\ ~outDir
        /\ \A p \in Paths : files[p] = "untouched"
        /\ \A u \in GenUnits : pc[u] = "idle"
        /\ eg = 1
        /\ mainPc \in {"returned", "exited"}
        /\ mainPc = "exited" => exitCode = 1

C38_Witness ==
    /\ Len(waited) = 1
    /\ BagCardinality(waited[1]) = 1
    /\ mainPc = "exited"
    /\ \E d \in Docs : loaded[d] # NoPage /\ ret[<<"load", d>>] = "nil"


\* The collector has received document d's page.
HandedOff(d) ==
    \/ colPage.doc = d
    \/ \E i \in 1 .. Len(pages) : pages[i].doc = d

\* The load worker u loaded its document and ended without handing the
\* page to the collector.
AbortedAtHandoff(u) ==
    /\ loaded[u[2]] # NoPage
    /\ pc[u] = "done"
    /\ ~HandedOff(u[2])

\* C39: the list the load phase's Wait returns holds exactly one
\* cancellation error for each load worker that loaded its document and
\* aborted at the handoff, exactly one load error for each document that
\* failed to load, and nothing else.
C39_AbortedWorkerCounted ==
    Len(waited) >= 1 =>
        /\ \A u \in LoadUnits :
              AbortedAtHandoff(u) =>
                  /\ ret[u] = "ctx"
                  /\ CopiesIn(<<u, "ctx">>, waited[1]) = 1
        /\ \A u \in LoadUnits :
              loaded[u[2]] = NoPage =>
                  /\ ret[u] \in LoadErrors
                  /\ CopiesIn(<<u, ret[u]>>, waited[1]) = 1
        /\ BagCardinality(waited[1]) =
              Cardinality({u \in LoadUnits :
                              AbortedAtHandoff(u) \/ loaded[u[2]] = NoPage})

C39_Witness ==
    /\ Len(waited) >= 1
    /\ \E u, v \in LoadUnits :
          /\ AbortedAtHandoff(u)
          /\ loaded[v[2]] = NoPage
          /\ waited[1] = SetToBag({<<u, "ctx">>, <<v, ret[v]>>})

=============================================================================
